---- MODULE Spec2Model ----
(***************************************************************************)
(* A model of the precision-policy benchmark harness:                      *)
(*   performance_monitor.py  PerformanceMonitor, BenchmarkResult           *)
(*   policy_comparison.py    PrecisionComparator                           *)
(*   benchmark_config.py     BenchmarkConfig                               *)
(* The foreground thread runs run_comparison / run_single_policy; every    *)
(* run starts one background thread in _sample_memory_periodically.        *)
(* Memory is counted in whole MB and time in whole ticks.                  *)
(***************************************************************************)
EXTENDS Integers, Sequences, FiniteSets, TLC

\* ------------------------------------------------------------------ bounds

\* Longest configured policy list.
MaxPolicies == 2

\* Most samples one sampling loop takes while its stop event is clear.
MaxSamples == 2

\* ------------------------------------------------------- program constants

\* BenchmarkConfig.benchmark_max_steps
benchmark_max_steps == 2000

\* BenchmarkConfig.get_all_policies
get_all_policies ==
    <<"full", "half_param", "half_compute", "half_output",
      "half_front", "half_back", "half_total">>

\* ------------------------------------------------------------ arithmetic

Max2(a, b) == IF a >= b THEN a ELSE b

RECURSIVE SumSeq(_)
SumSeq(s) == IF s = <<>> THEN 0 ELSE Head(s) + SumSeq(Tail(s))

RECURSIVE MaxSeq(_)
MaxSeq(s) == IF Len(s) = 1 THEN Head(s) ELSE Max2(Head(s), MaxSeq(Tail(s)))

RECURSIVE Gcd(_, _)
Gcd(a, b) == IF b = 0 THEN a ELSE Gcd(b, a % b)

Abs(a) == IF a < 0 THEN 0 - a ELSE a

\* The quotient n / d of Python's true division, kept exact as a fraction in
\* lowest terms with a positive denominator (d # 0).
Quot(n, d) ==
    LET g == Gcd(Abs(n), Abs(d))
        s == IF d < 0 THEN 0 - 1 ELSE 1
    IN  [num |-> s * (n \div g), den |-> s * (d \div g)]

\* The float 0.0 and the float of a whole number.
Zero == [num |-> 0, den |-> 1]
Whole(n) == [num |-> n, den |-> 1]

\* ------------------------------------------------- the accelerator probe

\* What one subprocess.run of nvidia-smi can do: raise, or complete with a
\* return code and a standard output.  stdout is a sequence of characters.
Completed(rc, out) == [exc |-> "none", returncode |-> rc, stdout |-> out]
Raised(e) == [exc |-> e, returncode |-> 0, stdout |-> <<>>]

Whitespace == {" ", "\n"}
Digits == {"0", "1", "2"}
DigitValue(c) == CASE c = "0" -> 0 [] c = "1" -> 1 [] c = "2" -> 2

\* str.strip()
RECURSIVE LStrip(_)
LStrip(s) ==
    IF s # <<>> /\ Head(s) \in Whitespace THEN LStrip(Tail(s)) ELSE s

RECURSIVE RStrip(_)
RStrip(s) ==
    IF s # <<>> /\ s[Len(s)] \in Whitespace
    THEN RStrip(SubSeq(s, 1, Len(s) - 1)) ELSE s

Strip(s) == RStrip(LStrip(s))

\* float(text) on a text of decimal digits; any other character makes it
\* raise ValueError.
RECURSIVE DecimalValue(_)
DecimalValue(s) ==
    IF s = <<>> THEN 0
    ELSE 10 * DecimalValue(SubSeq(s, 1, Len(s) - 1)) + DigitValue(s[Len(s)])

ParseFloat(s) ==
    IF s # <<>> /\ \A i \in 1..Len(s) : s[i] \in Digits
    THEN [ok |-> TRUE, value |-> DecimalValue(s)]
    ELSE [ok |-> FALSE, value |-> 0]

\* The exception classes the probe's except clause names.
ProbeCaught ==
    {"TimeoutExpired", "CalledProcessError", "ValueError", "FileNotFoundError"}

Returned(v) == [raised |-> FALSE, value |-> v]
Propagated == [raised |-> TRUE, value |-> 0]

\* PerformanceMonitor.get_gpu_memory_mb, given what the subprocess call does.
get_gpu_memory_mb(enable_memory_tracking, o) ==
    IF ~enable_memory_tracking THEN Returned(0)
    ELSE IF o.exc # "none"
         THEN IF o.exc \in ProbeCaught THEN Returned(0) ELSE Propagated
    ELSE IF o.returncode = 0 /\ Strip(o.stdout) # <<>>
         THEN LET p == ParseFloat(Strip(o.stdout))
              IN  IF p.ok THEN Returned(p.value) ELSE Returned(0)
    ELSE Returned(0)

\* What psutil's memory_info() can do: raise, or report a resident set size
\* in bytes.
BytesPerKb == 1024
RssRaises == [raises |-> TRUE, rss |-> 0]
Rss(mb) == [raises |-> FALSE, rss |-> mb * BytesPerKb * BytesPerKb]

\* PerformanceMonitor.get_cpu_memory_mb (the bare except maps a raise to 0.0).
get_cpu_memory_mb(enable_memory_tracking, psutil_available, o) ==
    IF ~enable_memory_tracking \/ ~psutil_available THEN 0
    ELSE IF o.raises THEN 0
    ELSE (o.rss \div BytesPerKb) \div BytesPerKb

\* ------------------------------------------------------------ the Monitor

\* An optional value is a sequence of length at most one.
None == <<>>
Some(x) == <<x>>

\* A constructor whose sample list and peak are shared by all Monitors: a
\* new Monitor starts with what an earlier one recorded.
monitor_with_shared_samples(emt, ett) ==
    [enable_memory_tracking |-> emt,
     enable_timing_tracking |-> ett,
     start_snapshot         |-> <<>>,
     peak_gpu_memory_mb     |-> 1,
     memory_samples         |-> <<1>>]

\* PerformanceMonitor.__init__
PerformanceMonitor(emt, ett) ==
    [enable_memory_tracking |-> emt,
     enable_timing_tracking |-> ett,
     start_snapshot         |-> None,
     peak_gpu_memory_mb     |-> 0,
     memory_samples         |-> <<>>]

\* A snapshot that reads the clocks whatever the timing flag says.
get_snapshot_always_timed(m, wall, clock, cpu, gpu) ==
    [wall_time     |-> wall,
     clock_time    |-> clock,
     cpu_memory_mb |-> cpu,
     gpu_memory_mb |-> gpu]

\* PerformanceMonitor.get_snapshot, given the two clocks and the two readings.
get_snapshot(m, wall, clock, cpu, gpu) ==
    [wall_time     |-> IF m.enable_timing_tracking THEN wall ELSE 0,
     clock_time    |-> IF m.enable_timing_tracking THEN clock ELSE 0,
     cpu_memory_mb |-> cpu,
     gpu_memory_mb |-> gpu]

\* PerformanceMonitor.start_monitoring
start_monitoring(m, snapshot) == [m EXCEPT !.start_snapshot = Some(snapshot)]

\* PerformanceMonitor.sample_memory, line 72: the append.
sample_append(m, reading) ==
    [m EXCEPT !.memory_samples = Append(@, reading)]

\* The peak update that keeps the latest reading instead of the largest.
sample_peak_latest(m, reading) ==
    [m EXCEPT !.peak_gpu_memory_mb = reading]

\* PerformanceMonitor.sample_memory, line 73: the peak update.
sample_peak(m, reading) ==
    [m EXCEPT !.peak_gpu_memory_mb = Max2(@, reading)]

\* A sample that records the reading whatever the tracking flag says.
sample_memory_always(m, ret) ==
    IF ret.raised THEN m
    ELSE sample_peak(sample_append(m, ret.value), ret.value)

\* A sample that also moves the baseline's accelerator reading to the
\* current one.
sample_memory_rebaselines(m, ret) ==
    IF ~m.enable_memory_tracking \/ ret.raised THEN m
    ELSE [sample_peak(sample_append(m, ret.value), ret.value)
            EXCEPT !.start_snapshot =
                IF @ = <<>> THEN @
                ELSE <<[@[1] EXCEPT !.gpu_memory_mb = ret.value + 1]>>]

\* PerformanceMonitor.sample_memory run to completion by one caller; ret is
\* what get_gpu_memory_mb gave (a raise leaves the Monitor as it was).
sample_memory(m, ret) ==
    IF ~m.enable_memory_tracking \/ ret.raised THEN m
    ELSE sample_peak(sample_append(m, ret.value), ret.value)

\* PerformanceMonitor.get_peak_memory_stats
get_peak_memory_stats(m) ==
    IF m.memory_samples = <<>>
    THEN [peak_gpu_mb |-> 0, avg_gpu_mb |-> Zero, samples_count |-> 0]
    ELSE [peak_gpu_mb   |-> m.peak_gpu_memory_mb,
          avg_gpu_mb    |-> Quot(SumSeq(m.memory_samples), Len(m.memory_samples)),
          samples_count |-> Len(m.memory_samples)]

\* PerformanceMonitor.get_delta: a dict, the empty dict without a baseline.
EmptyDict == [k \in {} |-> 0]

\* A delta that is all zeros, not empty, when no baseline was captured.
get_delta_zeros_unstarted(m, end_snapshot) ==
    IF m.start_snapshot = <<>>
    THEN [wall_time_delta |-> 0, clock_time_delta |-> 0,
          cpu_memory_delta_mb |-> 0, gpu_memory_delta_mb |-> 0]
    ELSE LET start == m.start_snapshot[1]
         IN  [wall_time_delta     |-> end_snapshot.wall_time - start.wall_time,
              clock_time_delta    |-> end_snapshot.clock_time - start.clock_time,
              cpu_memory_delta_mb |-> end_snapshot.cpu_memory_mb - start.cpu_memory_mb,
              gpu_memory_delta_mb |-> end_snapshot.gpu_memory_mb - start.gpu_memory_mb]

\* A delta taken the wrong way round: start minus end.
get_delta_reversed(m, end_snapshot) ==
    IF m.start_snapshot = None THEN EmptyDict
    ELSE LET start == m.start_snapshot[1]
         IN  [wall_time_delta     |-> start.wall_time - end_snapshot.wall_time,
              clock_time_delta    |-> start.clock_time - end_snapshot.clock_time,
              cpu_memory_delta_mb |-> start.cpu_memory_mb - end_snapshot.cpu_memory_mb,
              gpu_memory_delta_mb |-> start.gpu_memory_mb - end_snapshot.gpu_memory_mb]

\* PerformanceMonitor.get_delta
get_delta(m, end_snapshot) ==
    IF m.start_snapshot = None THEN EmptyDict
    ELSE LET start == m.start_snapshot[1]
         IN  [wall_time_delta     |-> end_snapshot.wall_time - start.wall_time,
              clock_time_delta    |-> end_snapshot.clock_time - start.clock_time,
              cpu_memory_delta_mb |-> end_snapshot.cpu_memory_mb - start.cpu_memory_mb,
              gpu_memory_delta_mb |-> end_snapshot.gpu_memory_mb - start.gpu_memory_mb]

\* dict.get(key, default)
DictGet(d, key, default) == IF key \in DOMAIN d THEN d[key] ELSE default

\* A throughput that guards against a zero elapsed time only.
throughput_zero_test(num_batches, elapsed_time) ==
    IF elapsed_time = 0 THEN Zero ELSE Quot(num_batches, elapsed_time)

\* PerformanceMonitor.calculate_throughput
calculate_throughput(num_batches, elapsed_time) ==
    IF elapsed_time <= 0 THEN Zero ELSE Quot(num_batches, elapsed_time)

\* BenchmarkResult, as run_single_policy builds it.
BenchmarkResult(policy, training_time, throughput, end_snapshot, delta, peak_stats) ==
    [precision_policy           |-> policy,
     training_time_sec          |-> training_time,
     throughput_batches_per_sec |-> throughput,
     cpu_memory_mb              |-> end_snapshot.cpu_memory_mb,
     gpu_memory_mb              |-> end_snapshot.gpu_memory_mb,
     cpu_memory_delta_mb        |-> DictGet(delta, "cpu_memory_delta_mb", 0),
     gpu_memory_delta_mb        |-> DictGet(delta, "gpu_memory_delta_mb", 0),
     peak_gpu_memory_mb         |-> peak_stats.peak_gpu_mb]

\* ------------------------------------------------------ the environment

\* What a call of nvidia-smi does, case by case.
GpuOutcomes ==
    {Raised("FileNotFoundError"),            \* the tool is missing
     Raised("TimeoutExpired"),               \* no answer within timeout=5
     Raised("PermissionError"),              \* the tool cannot be executed
     Completed(1, <<"1", "\n">>),            \* non-zero exit
     Completed(0, <<>>),                     \* no output
     Completed(0, <<" ", "\n">>),            \* blank output
     Completed(0, <<"x", "\n">>),            \* not a number
     Completed(0, <<"1", "\n", "2", "\n">>), \* one line per device
     Completed(0, <<"1", "\n">>),
     Completed(0, <<" ", "2", "\n">>)}

\* What psutil reports for the process.
CpuOutcomes == {RssRaises, Rss(1), Rss(2)}

\* The two environments a session is explored in.  In the steady one the
\* device always reports 1 MB unless the tool cannot be executed, and the
\* process holds 1 MB and one more for every tick a workload has run.  In
\* the varying one every call may do anything listed above.
Environments == {"steady", "varying"}

GpuOutcomesIn(e) ==
    IF e = "steady"
    THEN {Completed(0, <<"1", "\n">>), Raised("PermissionError")}
    ELSE GpuOutcomes

CpuOutcomesIn(e, t) == IF e = "steady" THEN {Rss(1 + t)} ELSE CpuOutcomes

\* How long a workload runs, in ticks.
Durations == {0, 1}

DurationsIn(e) == IF e = "steady" THEN {1} ELSE Durations

\* Thread.join(timeout=2.0) and subprocess.run(..., timeout=5), in seconds.
join_timeout == 2
probe_timeout == 5

\* ----------------------------------------------------------------- state

VARIABLES
    config,        \* the BenchmarkConfig: policies and the two tracking flags
    psutil,        \* PSUTIL_AVAILABLE
    environment,   \* which environment the session runs in
    now,           \* the clock
    pc,            \* where the foreground thread is
    idx,           \* run_comparison's loop position (1-based)
    results,       \* PrecisionComparator.results
    loc,           \* run_single_policy's local variables
    monitor,       \* the Monitor of each run, None before it is constructed
    stop,          \* the stop_sampling event of each run
    samplerPc,     \* where each run's sampling thread is
    report,        \* what print_comparison_results printed
    fault,         \* history: which call of each policy's run raised
    attempts,      \* history: how often each policy's run was started
    probeLog,      \* history: the readings each sampling thread obtained
    events,        \* history: the steps of the current run, in order
    late,          \* history: each run's sample calls after its stop event was set
    calls,         \* history: the run_comparison calls made on the Comparator
    call           \* the last call a direct caller of a Monitor made

vars ==
    <<config, psutil, environment, now, pc, idx, results, loc, monitor, stop,
      samplerPc, report, fault, attempts, probeLog, events, late, calls,
      call>>

fgVars == <<pc, idx, results, loc, report, fault, attempts, events, now>>
\* What a comparison session never writes.
envVars == <<config, psutil, environment, call>>

Runs == 1..MaxPolicies

policies == config.precision_policies

\* No sample call begun and no reading recorded after the stop event was set.
NoLate == [begun |-> 0, recorded |-> 0]

\* run_comparison has not been called: no call made, no Result left behind by
\* an earlier call.
NoCalls == [made |-> 0, earlier |-> 0]

\* run_single_policy's locals before a run.
NoLocals ==
    [start_time |-> 0, raised |-> FALSE, end_time |-> 0, training_time |-> 0,
     end_snapshot |-> None, delta |-> EmptyDict, throughput |-> Zero,
     exc |-> "none"]

\* The policy lists: the first n of the known policies.
PolicyLists == {SubSeq(get_all_policies, 1, n) : n \in 0..MaxPolicies}

Init ==
    /\ config \in [precision_policies : PolicyLists,
                   enable_memory_tracking : BOOLEAN,
                   enable_timing_tracking : BOOLEAN]
    /\ environment \in Environments
    /\ psutil \in BOOLEAN
    \* Lists of several policies are explored in the steady environment.
    /\ environment = "varying" => Len(config.precision_policies) <= 1
    /\ environment = "steady" => psutil
    \* Lists of more than two policies are explored without memory sampling.
    /\ Len(config.precision_policies) > 2 => ~config.enable_memory_tracking
    /\ now = 0
    /\ pc = "idle"
    /\ idx = 0
    /\ results = <<>>
    /\ loc = NoLocals
    /\ monitor = [r \in Runs |-> None]
    /\ stop = [r \in Runs |-> FALSE]
    /\ samplerPc = [r \in Runs |-> "unstarted"]
    /\ report = None
    /\ fault = [r \in Runs |-> "none"]
    /\ attempts = [r \in Runs |-> 0]
    /\ probeLog = [r \in Runs |-> <<>>]
    /\ events = <<>>
    /\ late = [r \in Runs |-> NoLate]
    /\ calls = NoCalls
    /\ call = None

\* ------------------------------------------------------------ the report

FracLess(a, b) == a.num * b.den < b.num * a.den

\* An insertion that puts a Result before the Results of equal time: the
\* sort it gives is not stable.
RECURSIVE insert_before_equal(_, _)
insert_before_equal(s, x) ==
    IF s = <<>> THEN <<x>>
    ELSE IF x.training_time_sec <= Head(s).training_time_sec
         THEN <<x>> \o s
         ELSE <<Head(s)>> \o insert_before_equal(Tail(s), x)

\* sorted(results, key=training_time_sec): a stable insertion.
RECURSIVE InsertByTime(_, _)
InsertByTime(s, x) ==
    IF s = <<>> THEN <<x>>
    ELSE IF x.training_time_sec < Head(s).training_time_sec
         THEN <<x>> \o s
         ELSE <<Head(s)>> \o InsertByTime(Tail(s), x)

RECURSIVE SortedByTime(_)
SortedByTime(rs) ==
    IF rs = <<>> THEN <<>>
    ELSE InsertByTime(SortedByTime(SubSeq(rs, 1, Len(rs) - 1)), rs[Len(rs)])

\* min(results, key=peak_gpu_memory_mb): the first of the smallest.
RECURSIVE LowestPeak(_)
LowestPeak(rs) ==
    IF Len(rs) = 1 THEN rs[1]
    ELSE LET rest == LowestPeak(Tail(rs))
         IN  IF rest.peak_gpu_memory_mb < rs[1].peak_gpu_memory_mb
             THEN rest ELSE rs[1]

\* The highest throughput taken to be that of the fastest Result.
highest_throughput_of_fastest(rs) == SortedByTime(rs)[1]

\* max(results, key=throughput_batches_per_sec): the first of the largest.
RECURSIVE HighestThroughput(_)
HighestThroughput(rs) ==
    IF Len(rs) = 1 THEN rs[1]
    ELSE LET rest == HighestThroughput(Tail(rs))
         IN  IF FracLess(rs[1].throughput_batches_per_sec,
                         rest.throughput_batches_per_sec)
             THEN rest ELSE rs[1]

\* compare_benchmark_results: the table's rows and its three summary lines.
compare_benchmark_results(rs) ==
    IF rs = <<>>
    THEN [text |-> "No benchmark results to compare", rows |-> <<>>,
          fastest |-> None, highest_throughput |-> None, lowest_peak |-> None]
    ELSE LET sorted_results == SortedByTime(rs)
         IN  [text |-> "PRECISION POLICY PERFORMANCE COMPARISON",
              rows |-> sorted_results,
              fastest |-> Some(sorted_results[1].precision_policy),
              highest_throughput |-> Some(HighestThroughput(rs).precision_policy),
              lowest_peak |-> Some(LowestPeak(rs).precision_policy)]

\* print_comparison_results without its own test for no results.
print_without_empty_test(rs) == compare_benchmark_results(rs)

\* PrecisionComparator.print_comparison_results: what is printed.
print_comparison_results(rs) ==
    IF rs = <<>>
    THEN [text |-> "No results to compare.", rows |-> <<>>,
          fastest |-> None, highest_throughput |-> None, lowest_peak |-> None]
    ELSE compare_benchmark_results(rs)

\* ------------------------------------------------- the foreground thread

\* The order without `return None`: a run whose workload raised goes on to
\* build a Result.
order_without_return_none(at, raised) ==
    CASE at = "config"       -> "monitor"
      [] at = "monitor"      -> "spawn"
      [] at = "spawn"        -> "launch"
      [] at = "launch"       -> "cancel"
      [] at = "cancel"       -> "join"
      [] at = "join"         -> "end_snapshot"
      [] at = "end_snapshot" -> "metrics"
      [] at = "metrics"      -> "result"
      [] at = "result"       -> "loop"

\* The order with the end snapshot taken right after the workload, before
\* the sampler is cancelled and joined.
order_snapshot_before_cancel(at, raised) ==
    CASE at = "config"       -> "monitor"
      [] at = "monitor"      -> "spawn"
      [] at = "spawn"        -> "launch"
      [] at = "launch"       -> IF raised THEN "cancel" ELSE "end_snapshot"
      [] at = "end_snapshot" -> "cancel"
      [] at = "cancel"       -> "join"
      [] at = "join"         -> IF raised THEN "loop" ELSE "metrics"
      [] at = "metrics"      -> "result"
      [] at = "result"       -> "loop"

\* run_single_policy's statements in program order: the step after `at`.
\* The finally clause runs on both paths; `return None` follows it when the
\* workload raised.
run_single_policy_order(at, raised) ==
    CASE at = "config"       -> "monitor"
      [] at = "monitor"      -> "spawn"
      [] at = "spawn"        -> "launch"
      [] at = "launch"       -> "cancel"
      [] at = "cancel"       -> "join"
      [] at = "join"         -> IF raised THEN "loop" ELSE "end_snapshot"
      [] at = "end_snapshot" -> "metrics"
      [] at = "metrics"      -> "result"
      [] at = "result"       -> "loop"

Step(at) ==
    /\ pc = at
    /\ pc' = run_single_policy_order(at, loc.raised)
    /\ events' = Append(events, at)

\* A sampling thread that has ended, by leaving its loop or by an exception.
Ended == {"exited", "crashed"}

\* A Monitor is discarded once its run is over and its sampling thread has
\* ended: nothing refers to it any more.  So is the Thread object.
Discard(mon, r) == [mon EXCEPT ![r] = None]

\* run_comparison without its except clause: the exception leaves the loop.
run_comparison_reraise ==
    /\ fault' = [fault EXCEPT ![idx] = pc]
    /\ pc' = "returned"
    /\ loc' = NoLocals
    /\ events' = Append(events, "except")
    /\ UNCHANGED <<idx, results, report, attempts, now>>

\* run_comparison's except clause: the policy is reported failed and the loop
\* goes on.
run_comparison_except ==
    /\ fault' = [fault EXCEPT ![idx] = pc]
    /\ pc' = "loop"
    /\ idx' = idx + 1
    /\ loc' = NoLocals
    /\ events' = Append(events, "except")
    /\ UNCHANGED <<results, report, attempts, now>>

\* A run_comparison that goes on appending to the list it finds.
results_kept_at_entry(found) == found

\* self.results = [] at the entry of run_comparison.
results_at_entry(found) == <<>>

\* run_comparison, up to the loop.
RunComparison ==
    /\ pc = "idle"
    /\ pc' = "loop"
    /\ idx' = 1
    /\ results' = results_at_entry(results)
    /\ calls' = [calls EXCEPT !.made = @ + 1]
    /\ UNCHANGED <<loc, report, fault, attempts, events, now>>
    /\ UNCHANGED <<envVars, monitor, stop, samplerPc, probeLog, late>>

\* The loop takes the next policy.
LoopEnter ==
    /\ pc = "loop"
    /\ idx <= Len(policies)
    /\ pc' = "config"
    /\ attempts' = [attempts EXCEPT ![idx] = @ + 1]
    /\ events' = <<>>
    /\ UNCHANGED <<idx, results, loc, report, fault, now>>
    /\ UNCHANGED <<envVars, calls, monitor, stop, samplerPc, probeLog, late>>

\* The loop is over: return self.results.
LoopExit ==
    /\ pc = "loop"
    /\ idx > Len(policies)
    /\ pc' = "returned"
    /\ UNCHANGED <<idx, results, loc, report, fault, attempts, events, now>>
    /\ UNCHANGED <<envVars, calls, monitor, stop, samplerPc, probeLog, late>>

\* Config(...) returns.
ConfigBuilt ==
    /\ Step("config")
    /\ UNCHANGED <<idx, results, loc, report, fault, attempts, now>>
    /\ UNCHANGED <<envVars, calls, monitor, stop, samplerPc, probeLog, late>>

\* Config(...) raises.
ConfigRaises ==
    /\ pc = "config"
    /\ run_comparison_except
    /\ UNCHANGED <<envVars, calls, monitor, stop, samplerPc, probeLog, late>>

\* The Monitor is constructed, start_monitoring takes the baseline, and
\* start_time is read.
StartMonitoring ==
    /\ pc = "monitor"
    /\ \E c \in CpuOutcomesIn(environment, now), g \in GpuOutcomesIn(environment) :
         LET m   == PerformanceMonitor(config.enable_memory_tracking,
                                       config.enable_timing_tracking)
             cpu == get_cpu_memory_mb(m.enable_memory_tracking, psutil, c)
             gpu == get_gpu_memory_mb(m.enable_memory_tracking, g)
         IN  /\ ~gpu.raised
             /\ monitor' = [monitor EXCEPT ![idx] =
                   Some(start_monitoring(m, get_snapshot(m, now, now, cpu, gpu.value)))]
    /\ Step("monitor")
    /\ loc' = [loc EXCEPT !.start_time = now]
    /\ UNCHANGED <<idx, results, report, fault, attempts, now>>
    /\ UNCHANGED <<envVars, calls, stop, samplerPc, probeLog, late>>

\* The baseline's probe call raises.
StartMonitoringRaises ==
    /\ pc = "monitor"
    /\ \E g \in GpuOutcomesIn(environment) :
         get_gpu_memory_mb(config.enable_memory_tracking, g).raised
    /\ run_comparison_except
    /\ UNCHANGED <<envVars, calls, monitor, stop, samplerPc, probeLog, late>>

\* The stop event is created and the sampling thread started.
StartSampler ==
    /\ Step("spawn")
    /\ stop' = [stop EXCEPT ![idx] = FALSE]
    /\ samplerPc' = [samplerPc EXCEPT ![idx] = "check"]
    /\ UNCHANGED <<idx, results, loc, report, fault, attempts, now>>
    /\ UNCHANGED <<envVars, calls, monitor, probeLog, late>>

\* The workload returns.
LaunchReturns ==
    /\ Step("launch")
    /\ \E d \in DurationsIn(environment) : now' = now + d
    /\ loc' = [loc EXCEPT !.raised = FALSE]
    /\ UNCHANGED <<idx, results, report, fault, attempts>>
    /\ UNCHANGED <<envVars, calls, monitor, stop, samplerPc, probeLog, late>>

\* A clause that catches everything, KeyboardInterrupt included.
except_BaseException(e) == TRUE

\* `except Exception`: whether the clause catches an exception of class e.
\* KeyboardInterrupt derives from BaseException only.
except_Exception(e) == e # "KeyboardInterrupt"

\* The workload raises an Exception: it is printed and None will be returned.
LaunchRaises ==
    /\ pc = "launch"
    /\ pc' = run_single_policy_order("launch", TRUE)
    /\ events' = Append(events, "launch")
    /\ \E d \in DurationsIn(environment) : now' = now + d
    /\ loc' = [loc EXCEPT !.raised = except_Exception("Exception"),
                          !.exc = "Exception"]
    /\ fault' = [fault EXCEPT ![idx] = "launch"]
    /\ UNCHANGED <<idx, results, report, attempts>>
    /\ UNCHANGED <<envVars, calls, monitor, stop, samplerPc, probeLog, late>>

\* The workload is interrupted by the user: KeyboardInterrupt is raised in
\* the foreground thread.  The finally clause still runs.
LaunchInterrupted ==
    /\ pc = "launch"
    /\ pc' = run_single_policy_order("launch", TRUE)
    /\ events' = Append(events, "launch")
    /\ \E d \in DurationsIn(environment) : now' = now + d
    /\ loc' = [loc EXCEPT !.raised = except_Exception("KeyboardInterrupt"),
                          !.exc = "KeyboardInterrupt"]
    /\ fault' = [fault EXCEPT ![idx] = "interrupt"]
    /\ UNCHANGED <<idx, results, report, attempts>>
    /\ UNCHANGED <<envVars, calls, monitor, stop, samplerPc, probeLog, late>>

\* finally: stop_sampling.set()
CancelSampler ==
    /\ Step("cancel")
    /\ stop' = [stop EXCEPT ![idx] = TRUE]
    /\ UNCHANGED <<idx, results, loc, report, fault, attempts, now>>
    /\ UNCHANGED <<envVars, calls, monitor, samplerPc, probeLog, late>>

\* run_single_policy is left: its Monitor is discarded unless the sampling
\* thread is still running and holds it.
RunEnds ==
    IF samplerPc[idx] \in Ended
    THEN /\ monitor' = Discard(monitor, idx)
         /\ probeLog' = [probeLog EXCEPT ![idx] = <<>>]
         /\ late' = [late EXCEPT ![idx] = NoLate]
         /\ samplerPc' = [samplerPc EXCEPT ![idx] = "discarded"]
    ELSE UNCHANGED <<monitor, probeLog, late, samplerPc>>

\* After the join: an exception the clause at line 52 did not catch goes on
\* through run_single_policy and, not caught at line 116 either, through
\* run_comparison to main, which ends the process.  Otherwise `return None`
\* when the workload raised, else the run goes on.
AfterJoin ==
    /\ pc = "join"
    /\ events' = Append(events, "join")
    /\ IF loc.exc # "none" /\ ~loc.raised /\ ~except_Exception(loc.exc)
       THEN /\ pc' = "interrupted"
            /\ idx' = idx + 1
            /\ loc' = NoLocals
            /\ RunEnds
       ELSE /\ pc' = run_single_policy_order("join", loc.raised)
            /\ IF run_single_policy_order("join", loc.raised) = "loop"
               THEN /\ idx' = idx + 1
                    /\ loc' = NoLocals
                    /\ RunEnds
               ELSE UNCHANGED <<idx, loc, monitor, probeLog, late, samplerPc>>
    /\ UNCHANGED <<results, report, fault, attempts, now>>
    /\ UNCHANGED <<envVars, calls, stop>>

\* A join without a timeout: it returns only when the thread has ended.
join_without_timeout ==
    /\ pc = "join"
    /\ FALSE
    /\ UNCHANGED vars

\* sampling_thread.join(timeout=2.0) returns because the thread has ended.
JoinReturns ==
    /\ pc = "join"
    /\ samplerPc[idx] \in {"exited", "crashed"}
    /\ AfterJoin

\* sampling_thread.join(timeout=2.0) returns because the 2.0 s are over and
\* the thread is still alive: it is inside the probe's subprocess call, which
\* may take up to 5 s, or it has not been scheduled in that time.
JoinTimeout ==
    /\ pc = "join"
    /\ \/ samplerPc[idx] = "probe" /\ join_timeout < probe_timeout
       \/ samplerPc[idx] \in {"check", "sample", "wait"}
    /\ AfterJoin

\* end_time, the end snapshot and training_time.
EndSnapshot ==
    /\ pc = "end_snapshot"
    /\ \E c \in CpuOutcomesIn(environment, now), g \in GpuOutcomesIn(environment) :
         LET m   == monitor[idx][1]
             cpu == get_cpu_memory_mb(m.enable_memory_tracking, psutil, c)
             gpu == get_gpu_memory_mb(m.enable_memory_tracking, g)
         IN  /\ ~gpu.raised
             /\ loc' = [loc EXCEPT
                   !.end_time = now,
                   !.end_snapshot = Some(get_snapshot(m, now, now, cpu, gpu.value)),
                   !.training_time = now - loc.start_time]
    /\ Step("end_snapshot")
    /\ UNCHANGED <<idx, results, report, fault, attempts, now>>
    /\ UNCHANGED <<envVars, calls, monitor, stop, samplerPc, probeLog, late>>

\* The end snapshot's probe call raises.
EndSnapshotRaises ==
    /\ pc = "end_snapshot"
    /\ \E g \in GpuOutcomesIn(environment) :
         get_gpu_memory_mb(monitor[idx][1].enable_memory_tracking, g).raised
    /\ run_comparison_except
    /\ RunEnds
    /\ UNCHANGED <<envVars, calls, stop>>

\* delta and throughput.
ComputeMetrics ==
    /\ pc = "metrics"
    /\ LET delta == get_delta(monitor[idx][1], loc.end_snapshot[1])
       IN  loc' = [loc EXCEPT
              !.delta = delta,
              !.throughput = calculate_throughput(
                  benchmark_max_steps,
                  DictGet(delta, "clock_time_delta", loc.training_time))]
    /\ Step("metrics")
    /\ UNCHANGED <<idx, results, report, fault, attempts, now>>
    /\ UNCHANGED <<envVars, calls, monitor, stop, samplerPc, probeLog, late>>

\* The Result run_single_policy builds at lines 73-85 from the state as it is.
new_result ==
    BenchmarkResult(policies[idx], loc.training_time, loc.throughput,
                    loc.end_snapshot[1], loc.delta,
                    get_peak_memory_stats(monitor[idx][1]))

\* The peak statistics are read and the Result is built and returned;
\* run_comparison appends it.
BuildResult ==
    /\ pc = "result"
    /\ results' = Append(results, new_result)
    /\ Step("result")
    /\ idx' = idx + 1
    /\ loc' = NoLocals
    /\ RunEnds
    /\ UNCHANGED <<report, fault, attempts, now>>
    /\ UNCHANGED <<envVars, calls, stop>>

\* print_comparison_results, after run_comparison has returned.
PrintComparisonResults ==
    /\ pc = "returned"
    /\ pc' = "printed"
    /\ report' = Some(print_comparison_results(results))
    /\ UNCHANGED <<idx, results, loc, fault, attempts, events, now>>
    /\ UNCHANGED <<envVars, calls, monitor, stop, samplerPc, probeLog, late>>

\* --------------------------------------------------- the sampling threads

samplerFrame == <<envVars, fgVars, stop, calls>>

\* The thread of run r ends: its Monitor is discarded unless the run is still
\* going on.
ThreadEnds(r, how) ==
    IF r < idx
    THEN /\ monitor' = Discard(monitor, r)
         /\ probeLog' = [probeLog EXCEPT ![r] = <<>>]
         /\ late' = [late EXCEPT ![r] = NoLate]
         /\ samplerPc' = [samplerPc EXCEPT ![r] = "discarded"]
    ELSE /\ samplerPc' = [samplerPc EXCEPT ![r] = how]
         /\ UNCHANGED <<monitor, probeLog, late>>

\* A loop that goes on until it has MaxSamples readings, whatever the event.
loop_ignores_event(r) == Len(probeLog[r]) < MaxSamples

\* while not stop_event.is_set()
loop_condition(r) == ~stop[r]

\* The loop's test.  With the event set the loop is left and the thread ends;
\* otherwise the loop body is entered.
SamplerCheck(r) ==
    /\ samplerPc[r] = "check"
    /\ IF ~loop_condition(r)
       THEN ThreadEnds(r, "exited")
       ELSE /\ samplerPc' = [samplerPc EXCEPT ![r] = "sample"]
            /\ UNCHANGED <<monitor, probeLog, late>>
    /\ UNCHANGED samplerFrame

\* monitor.sample_memory() is called: without memory tracking it returns at
\* once, with it the probe's subprocess is started.
SampleBegin(r) ==
    /\ samplerPc[r] = "sample"
    /\ samplerPc' = [samplerPc EXCEPT ![r] =
          IF monitor[r][1].enable_memory_tracking THEN "probe" ELSE "wait"]
    /\ late' = [late EXCEPT ![r].begun = IF stop[r] THEN @ + 1 ELSE @]
    /\ UNCHANGED <<samplerFrame, monitor, probeLog>>

\* The probe returns a reading and sample_memory records it: the append and
\* the peak update of lines 72-73.
ProbeReturns(r) ==
    /\ samplerPc[r] = "probe"
    /\ \E g \in GpuOutcomesIn(environment) :
         LET gpu == get_gpu_memory_mb(monitor[r][1].enable_memory_tracking, g)
         IN  /\ ~gpu.raised
             /\ monitor' = [monitor EXCEPT ![r] = Some(sample_memory(@[1], gpu))]
             /\ probeLog' = [probeLog EXCEPT ![r] = Append(@, gpu.value)]
    /\ late' = [late EXCEPT ![r].recorded = IF stop[r] THEN @ + 1 ELSE @]
    /\ samplerPc' = [samplerPc EXCEPT ![r] = "wait"]
    /\ UNCHANGED samplerFrame

\* The probe raises: nothing in the loop catches it and the thread ends.
ProbeRaises(r) ==
    /\ samplerPc[r] = "probe"
    /\ \E g \in GpuOutcomesIn(environment) :
         get_gpu_memory_mb(monitor[r][1].enable_memory_tracking, g).raised
    /\ ThreadEnds(r, "crashed")
    /\ UNCHANGED samplerFrame

\* A wait that does not look at the event, as time.sleep(interval) would.
wait_ignores_event(r) == FALSE

\* stop_event.wait(interval) returns because the event is set.
wait_signalled(r) == stop[r]

WaitSignalled(r) ==
    /\ samplerPc[r] = "wait"
    /\ wait_signalled(r)
    /\ samplerPc' = [samplerPc EXCEPT ![r] = "check"]
    /\ UNCHANGED <<samplerFrame, monitor, probeLog, late>>

\* stop_event.wait(interval) returns because the interval is over.  A loop
\* that has taken MaxSamples samples sees no further interval end before its
\* event is set.
WaitTimeout(r) ==
    /\ samplerPc[r] = "wait"
    /\ ~stop[r]
    /\ Len(probeLog[r]) < MaxSamples
    /\ samplerPc' = [samplerPc EXCEPT ![r] = "check"]
    /\ UNCHANGED <<samplerFrame, monitor, probeLog, late>>

SamplerNext(r) ==
    \/ SamplerCheck(r)
    \/ SampleBegin(r)
    \/ ProbeReturns(r)
    \/ ProbeRaises(r)
    \/ WaitSignalled(r)
    \/ WaitTimeout(r)

\* ---------------------------------------------------------- specification

Foreground ==
    \/ RunComparison
    \/ LoopEnter
    \/ LoopExit
    \/ ConfigBuilt
    \/ ConfigRaises
    \/ StartMonitoring
    \/ StartMonitoringRaises
    \/ StartSampler
    \/ LaunchReturns
    \/ LaunchRaises
    \/ LaunchInterrupted
    \/ CancelSampler
    \/ JoinReturns
    \/ JoinTimeout
    \/ EndSnapshot
    \/ EndSnapshotRaises
    \/ ComputeMetrics
    \/ BuildResult
    \/ PrintComparisonResults

Next == Foreground \/ \E r \in Runs : SamplerNext(r)

Spec == Init /\ [][Next]_vars

\* Every sampling thread that can take a step eventually takes one, and a
\* probe call that has been started eventually returns or raises.
FairSpec == Spec /\ \A r \in Runs : WF_vars(SamplerNext(r))

\* The foreground thread is scheduled fairly and the workload call ends;
\* nothing is assumed of the sampling threads.
ProgressSpec == Spec /\ WF_vars(Foreground)

\* ------------------------------------------- run_comparison called again

MaxCalls == 2

\* The caller calls run_comparison on the same Comparator once more, after the
\* earlier call returned or was interrupted.  Each run of the earlier call
\* had its own Monitor, event and thread, which the new call never
\* touches: they are followed no further.
RunComparisonAgain ==
    /\ pc \in {"returned", "interrupted"}
    /\ calls.made < MaxCalls
    /\ pc' = "loop"
    /\ idx' = 1
    /\ results' = results_at_entry(results)
    /\ calls' = [made |-> calls.made + 1,
                 earlier |-> calls.earlier + Len(results)]
    /\ loc' = NoLocals
    /\ monitor' = [r \in Runs |-> None]
    /\ stop' = [r \in Runs |-> FALSE]
    /\ samplerPc' = [r \in Runs |-> "unstarted"]
    /\ fault' = [r \in Runs |-> "none"]
    /\ attempts' = [r \in Runs |-> 0]
    /\ probeLog' = [r \in Runs |-> <<>>]
    /\ events' = <<>>
    /\ late' = [r \in Runs |-> NoLate]
    /\ UNCHANGED <<envVars, report, now>>

RecallNext == Next \/ RunComparisonAgain

\* Repeated calls are explored in the steady environment with timing
\* tracking enabled.
RecallInit ==
    /\ Init
    /\ environment = "steady"
    /\ config.enable_timing_tracking

RecallSpec == RecallInit /\ [][RecallNext]_vars

\* ------------------------------------------- a direct caller of a Monitor

\* benchmark_runner.run_single_policy_mode and tests/test_gpu_memory.py use a
\* Monitor without a Comparator: they construct it and call its methods one
\* after the other.  The Monitor of such a caller is monitor[1]; call records
\* the last method called, its arguments and what it returned.

MaxClock == 2

BatchCounts == {0, 1, 2, benchmark_max_steps}
ElapsedTimes == {-1, 0, 1, 2}

Called(op, args, ret) == Some([op |-> op, args |-> args, ret |-> ret])

directFrame ==
    <<config, psutil, environment, pc, idx, results, loc, stop, samplerPc,
      report, fault, attempts, events, calls>>

\* monitor = PerformanceMonitor(...)
DirectInit ==
    /\ config \in [precision_policies : {<<>>},
                   enable_memory_tracking : BOOLEAN,
                   enable_timing_tracking : BOOLEAN]
    /\ environment = "varying"
    /\ psutil \in BOOLEAN
    /\ now = 0
    /\ pc = "direct"
    /\ idx = 0
    /\ results = <<>>
    /\ loc = NoLocals
    /\ monitor = [r \in Runs |->
          IF r = 1 THEN Some(PerformanceMonitor(config.enable_memory_tracking,
                                                config.enable_timing_tracking))
          ELSE None]
    /\ stop = [r \in Runs |-> FALSE]
    /\ samplerPc = [r \in Runs |-> "unstarted"]
    /\ report = None
    /\ fault = [r \in Runs |-> "none"]
    /\ attempts = [r \in Runs |-> 0]
    /\ probeLog = [r \in Runs |-> <<>>]
    /\ events = <<>>
    /\ late = [r \in Runs |-> NoLate]
    /\ calls = NoCalls
    /\ call = None

\* The snapshots get_snapshot can return to the caller after the clock has
\* advanced by d.
DirectSnapshots(d) ==
    LET m == monitor[1][1]
    IN  {get_snapshot(m, now + d, now + d,
                      get_cpu_memory_mb(m.enable_memory_tracking, psutil, c),
                      get_gpu_memory_mb(m.enable_memory_tracking, g).value) :
            c \in CpuOutcomes,
            g \in {o \in GpuOutcomes :
                      ~get_gpu_memory_mb(m.enable_memory_tracking, o).raised}}

\* monitor.start_monitoring()
DirectStartMonitoring ==
    /\ pc = "direct"
    /\ \E d \in Durations :
         /\ now + d <= MaxClock
         /\ now' = now + d
         /\ \E snapshot \in DirectSnapshots(d) :
              /\ monitor' = [monitor EXCEPT ![1] = Some(start_monitoring(@[1], snapshot))]
              /\ call' = Called("start_monitoring", <<>>, snapshot)
    /\ UNCHANGED <<directFrame, probeLog, late>>

\* monitor.sample_memory()
DirectSample ==
    /\ pc = "direct"
    /\ Len(probeLog[1]) < MaxSamples
    /\ \E g \in GpuOutcomes :
         LET m   == monitor[1][1]
             gpu == get_gpu_memory_mb(m.enable_memory_tracking, g)
         IN  /\ monitor' = [monitor EXCEPT ![1] = Some(sample_memory(m, gpu))]
             /\ probeLog' = [probeLog EXCEPT ![1] =
                   IF m.enable_memory_tracking /\ ~gpu.raised
                   THEN Append(@, gpu.value) ELSE @]
             /\ call' = Called("sample_memory", <<>>, gpu)
    /\ UNCHANGED <<directFrame, now, late>>

\* monitor.get_peak_memory_stats()
DirectPeakStats ==
    /\ pc = "direct"
    /\ call' = Called("get_peak_memory_stats", <<>>,
                      get_peak_memory_stats(monitor[1][1]))
    /\ UNCHANGED <<directFrame, now, monitor, probeLog, late>>

\* monitor.get_delta(monitor.get_snapshot())
DirectGetDelta ==
    /\ pc = "direct"
    /\ \E d \in Durations :
         /\ now + d <= MaxClock
         /\ now' = now + d
         /\ \E snapshot \in DirectSnapshots(d) :
              call' = Called("get_delta", <<snapshot>>,
                             get_delta(monitor[1][1], snapshot))
    /\ UNCHANGED <<directFrame, monitor, probeLog, late>>

\* monitor.calculate_throughput(num_batches, elapsed_time)
DirectThroughput ==
    /\ pc = "direct"
    /\ \E n \in BatchCounts, t \in ElapsedTimes :
         call' = Called("calculate_throughput", <<n, t>>,
                        calculate_throughput(n, t))
    /\ UNCHANGED <<directFrame, now, monitor, probeLog, late>>

DirectNext ==
    \/ DirectStartMonitoring
    \/ DirectSample
    \/ DirectPeakStats
    \/ DirectGetDelta
    \/ DirectThroughput

\* Comparison sessions and direct callers of a Monitor.
ApiInit == Init \/ DirectInit
ApiNext == Next \/ DirectNext
ApiSpec == ApiInit /\ [][ApiNext]_vars

\* ------------------------------------------------ the report on its own

\* compare_benchmark_results is a function of the Results alone.  Here the
\* Comparator holds any list of up to MaxResults Results when run_comparison
\* has returned, and the report is printed.

MaxResults == 3

RankTimes == {1, 2}
RankThroughputs == {Quot(1, 2), Whole(2)}
RankPeaks == {1, 2}

ResultAt(i, t, q, p) ==
    [precision_policy           |-> get_all_policies[i],
     training_time_sec          |-> t,
     throughput_batches_per_sec |-> q,
     cpu_memory_mb              |-> 0,
     gpu_memory_mb              |-> p,
     cpu_memory_delta_mb        |-> 0,
     gpu_memory_delta_mb        |-> 0,
     peak_gpu_memory_mb         |-> p]

ResultLists ==
    UNION {{[k \in 1..n |-> ResultAt(k, f[k][1], f[k][2], f[k][3])] :
               f \in [1..n -> RankTimes \X RankThroughputs \X RankPeaks]} :
           n \in 0..MaxResults}

RankInit ==
    /\ results \in ResultLists
    /\ config = [precision_policies |-> [k \in 1..Len(results) |-> get_all_policies[k]],
                 enable_memory_tracking |-> TRUE,
                 enable_timing_tracking |-> TRUE]
    /\ environment = "steady"
    /\ psutil = TRUE
    /\ now = 0
    /\ pc = "returned"
    /\ idx = Len(results) + 1
    /\ loc = NoLocals
    /\ monitor = [r \in Runs |-> None]
    /\ stop = [r \in Runs |-> FALSE]
    /\ samplerPc = [r \in Runs |-> "unstarted"]
    /\ report = None
    /\ fault = [r \in Runs |-> "none"]
    /\ attempts = [r \in Runs |-> 0]
    /\ probeLog = [r \in Runs |-> <<>>]
    /\ events = <<>>
    /\ late = [r \in Runs |-> NoLate]
    /\ calls = NoCalls
    /\ call = None

RankSpec == RankInit /\ [][PrintComparisonResults]_vars

\* ----------------------------------------------------------------- claims

Finished == pc \in {"returned", "printed"}

InRun ==
    pc \in {"config", "monitor", "spawn", "launch", "cancel", "join",
            "end_snapshot", "metrics", "result"}

PolicyNames(rs) == [k \in 1..Len(rs) |-> rs[k].precision_policy]

\* The policies among the first n whose index passes the test, in list order.
RECURSIVE PoliciesWhere(_, _)
PoliciesWhere(n, keep) ==
    IF n = 0 THEN <<>>
    ELSE IF n \in keep
         THEN Append(PoliciesWhere(n - 1, keep), policies[n])
         ELSE PoliciesWhere(n - 1, keep)

\* The runs that are over.
Over == {i \in 1..Len(policies) : i < idx}

HasResult(i) == \E k \in 1..Len(results) : results[k].precision_policy = policies[i]

\* The largest of the readings, 0 when there is none.
PeakOf(readings) == IF readings = <<>> THEN 0 ELSE MaxSeq(readings)

IsPrefix(s, t) == Len(s) <= Len(t) /\ SubSeq(t, 1, Len(s)) = s

\* C1, as stated: when run_comparison returns, the Results are those of the
\* policies whose workload did not raise, one each, in list order.
C1_ResultPerWorkloadNotRaised ==
    Finished =>
        PolicyNames(results) =
            PoliciesWhere(Len(policies), {i \in Over : fault[i] # "launch"})

\* C1, amended: at every moment the Results are those of the finished runs in
\* which nothing raised (neither the workload nor Config nor a snapshot), one
\* each, in list order; a run whose workload raised has no Result.
C1_PartialFailureIsolation ==
    /\ PolicyNames(results) =
           PoliciesWhere(Len(policies), {i \in Over : fault[i] = "none"})
    /\ \A i \in Over : fault[i] = "launch" => ~HasResult(i)

\* Two policies, the first one's workload raised, the second one has its
\* Result.
C1_Witness ==
    /\ Finished
    /\ Len(policies) = 2
    /\ fault[1] = "launch"
    /\ PolicyNames(results) = <<policies[2]>>

\* C2: once run_single_policy has returned for a policy, that run's sampling
\* thread has ended.
C2_NoLeakedSampler ==
    \A r \in Runs : r < idx => samplerPc[r] \in {"unstarted", "discarded"}

\* C3: with memory tracking on and the probe giving the same value c at every
\* call of a run, the Result about to be built has delta 0 and peak c.
C3_ConstantProbePeak ==
    (pc = "result" /\ config.enable_memory_tracking
        /\ samplerPc[idx] # "crashed") =>
        LET m == monitor[idx][1]
            c == loc.end_snapshot[1].gpu_memory_mb
        IN  (/\ m.start_snapshot[1].gpu_memory_mb = c
             /\ \A k \in 1..Len(probeLog[idx]) : probeLog[idx][k] = c)
            => /\ new_result.gpu_memory_delta_mb = 0
               /\ new_result.peak_gpu_memory_mb = c

\* C4: the foreground reads the peak statistics only when the sampling thread
\* has ended, and the peak in a Result is the largest reading its Monitor
\* holds, however long that Monitor lives.
C4_Handoff ==
    /\ pc = "result" => samplerPc[idx] \in Ended
    /\ \A i \in Over : \A k \in 1..Len(results) :
          (results[k].precision_policy = policies[i] /\ monitor[i] # None)
              => results[k].peak_gpu_memory_mb = PeakOf(monitor[i][1].memory_samples)

\* The position of a step in the current run's history, 0 if it has not
\* been taken.
Pos(e) ==
    IF \E k \in 1..Len(events) : events[k] = e
    THEN CHOOSE k \in 1..Len(events) : events[k] = e
    ELSE 0

Before(a, b) == Pos(b) > 0 => (Pos(a) > 0 /\ Pos(a) < Pos(b))

\* C5: within one run the baseline is taken before the sampling thread is
\* started and before the workload is invoked; cancellation is signalled after
\* the workload and before the end snapshot; the join has returned before the
\* end snapshot, the metrics and the peak statistics.
C5_RunOrdering ==
    InRun =>
        /\ Before("monitor", "spawn") /\ Before("monitor", "launch")
        /\ Before("spawn", "launch")
        /\ Before("launch", "cancel") /\ Before("cancel", "join")
        /\ Before("cancel", "end_snapshot") /\ Before("join", "end_snapshot")
        /\ Before("join", "metrics") /\ Before("join", "result")
        /\ Before("end_snapshot", "metrics") /\ Before("metrics", "result")
        /\ samplerPc[idx] # "unstarted" =>
              (monitor[idx] # None /\ monitor[idx][1].start_snapshot # None)
        /\ pc = "launch" => samplerPc[idx] # "unstarted"
        /\ loc.end_snapshot # None => (stop[idx] /\ Pos("join") > 0)
        /\ pc = "result" => (loc.end_snapshot # None /\ Pos("metrics") > 0)

\* A run that has gone through every step up to the reading of the peak.
C5_Witness ==
    /\ pc = "result"
    /\ events = <<"config", "monitor", "spawn", "launch", "cancel", "join",
                  "end_snapshot", "metrics">>

\* What C6 says of one Monitor and the readings its sample calls obtained.
PeakTracked(m, readings) ==
    LET stats == get_peak_memory_stats(m)
    IN  /\ \A k \in 1..Len(readings) : readings[k] >= 0
        /\ m.memory_samples = readings
        /\ m.peak_gpu_memory_mb = PeakOf(readings)
        /\ stats.peak_gpu_mb = PeakOf(readings)
        /\ stats.samples_count = Len(readings)
        /\ stats.avg_gpu_mb.den > 0
        /\ stats.avg_gpu_mb.num * Max2(Len(readings), 1)
               = SumSeq(readings) * stats.avg_gpu_mb.den
        /\ readings = <<>> => stats.avg_gpu_mb = Zero

\* C6: after the completed sample calls of a Monitor the sample list is their
\* readings in call order, the peak is the largest of them (0 with none), and
\* get_peak_memory_stats reports that peak, their mean and their number; the
\* peak never decreases and the list only grows at its end.
C6_PeakAverageTracking ==
    /\ [](\A r \in Runs : monitor[r] # None => PeakTracked(monitor[r][1], probeLog[r]))
    /\ [][\A r \in Runs : (monitor[r] # None /\ monitor'[r] # None) =>
             /\ monitor'[r][1].peak_gpu_memory_mb >= monitor[r][1].peak_gpu_memory_mb
             /\ IsPrefix(monitor[r][1].memory_samples, monitor'[r][1].memory_samples)]_vars

\* Two samples, the larger one first: the peak is not the latest reading.
C6_Witness ==
    \E r \in Runs :
        /\ monitor[r] # None
        /\ Len(monitor[r][1].memory_samples) = 2
        /\ monitor[r][1].memory_samples[1] > monitor[r][1].memory_samples[2]
        /\ monitor[r][1].peak_gpu_memory_mb = monitor[r][1].memory_samples[1]

\* C7: once a run's stop event is set its sampling thread eventually ends, and
\* a thread waiting while the event is set can leave the wait at once.
C7_SamplerShutdown ==
    /\ \A r \in Runs : stop[r] ~> (samplerPc[r] \in Ended \cup {"discarded"})
    /\ [](\A r \in Runs :
            (samplerPc[r] = "wait" /\ stop[r]) => ENABLED WaitSignalled(r))

\* A thread that took a sample, was cancelled and has left its loop.
C7_Witness ==
    \E r \in Runs :
        /\ stop[r]
        /\ samplerPc[r] = "exited"
        /\ monitor[r] # None
        /\ monitor[r][1].memory_samples # <<>>

\* C8: an exception that leaves run_single_policy (from Config or from a
\* snapshot) adds no Result and the loop goes on: every policy is attempted
\* exactly once by the time run_comparison returns, never more.
C8_TwoLevelResilience ==
    /\ \A i \in 1..Len(policies) : attempts[i] <= 1
    /\ \A i \in Over : attempts[i] = 1
    /\ \A i \in Over :
          fault[i] \in {"config", "monitor", "end_snapshot"} => ~HasResult(i)
    /\ Finished => \A i \in 1..Len(policies) : i \in Over /\ attempts[i] = 1

\* The first policy's baseline snapshot raised and the second policy still
\* ran and has its Result.
C8_Witness ==
    /\ Finished
    /\ Len(policies) = 2
    /\ fault[1] = "monitor"
    /\ PolicyNames(results) = <<policies[2]>>

\* C9: with no successful run (an empty list, or every run failed)
\* run_comparison returns no Result and the report is exactly "No results to
\* compare." without rows; a printed table has rows only for successful runs.
C9_EmptySuccessfulSet ==
    /\ (Finished /\ \A i \in 1..Len(policies) : fault[i] # "none") => results = <<>>
    /\ pc = "printed" =>
          /\ report # None
          /\ results = <<>> =>
                /\ report[1].text = "No results to compare."
                /\ report[1].rows = <<>>
          /\ results # <<>> => report[1].text # "No results to compare."
          /\ \A k \in 1..Len(report[1].rows) :
                \E i \in 1..Len(policies) :
                    /\ policies[i] = report[1].rows[k].precision_policy
                    /\ fault[i] = "none"

\* Two policies, both failed, and the report says so.
C9_Witness ==
    /\ pc = "printed"
    /\ Len(policies) = 2
    /\ fault[1] # "none" /\ fault[2] # "none"
    /\ report[1].text = "No results to compare."

\* The probe conditions C10 lists: the tool is missing, the call times out,
\* the exit code is not 0, or the output is empty or no single number.
Degraded(o) ==
    \/ o.exc \in {"FileNotFoundError", "TimeoutExpired"}
    \/ /\ o.exc = "none"
       /\ \/ o.returncode # 0
          \/ Strip(o.stdout) = <<>>
          \/ ~ParseFloat(Strip(o.stdout)).ok

\* C10: the probe returns 0.0 without raising when tracking is off or one of
\* the listed conditions holds, the parsed number when the tool exits 0 with
\* a number; and no sample call lets an exception reach the sampling loop.
C10_ProbeDegradation ==
    /\ \A o \in GpuOutcomes :
          /\ get_gpu_memory_mb(FALSE, o) = Returned(0)
          /\ Degraded(o) => get_gpu_memory_mb(TRUE, o) = Returned(0)
          /\ (o.exc = "none" /\ ~Degraded(o)) =>
                get_gpu_memory_mb(TRUE, o) = Returned(ParseFloat(Strip(o.stdout)).value)
    /\ \A r \in Runs : samplerPc[r] # "crashed"

\* The last call of a direct caller, when it was a call of op.
CallWas(op) == call # None /\ call[1].op = op

\* A fraction with a positive denominator that is not negative.
NonNegative(q) == q.den > 0 /\ q.num >= 0

\* C11: calculate_throughput(n, t) is 0.0 for every t <= 0 and n/t for every
\* t > 0, for n >= 0, without dividing by zero; the throughput of every
\* Result, built or about to be built, is not negative.
C11_ThroughputBoundary ==
    /\ CallWas("calculate_throughput") =>
          LET n == call[1].args[1]
              t == call[1].args[2]
              q == call[1].ret
          IN  /\ q.den > 0
              /\ t <= 0 => q = Zero
              /\ t > 0 => q.num * t = n * q.den
    /\ \A k \in 1..Len(results) :
          NonNegative(results[k].throughput_batches_per_sec)
    /\ pc = "result" => NonNegative(loc.throughput)

\* A positive number of batches over a negative elapsed time gave 0.0.
C11_Witness ==
    /\ CallWas("calculate_throughput")
    /\ call[1].args[1] > 0
    /\ call[1].args[2] < 0
    /\ call[1].ret = Zero

\* d holds the four differences S2 - S1, field by field.
IsDelta(d, S1, S2) ==
    /\ DOMAIN d = {"wall_time_delta", "clock_time_delta",
                   "cpu_memory_delta_mb", "gpu_memory_delta_mb"}
    /\ d.wall_time_delta = S2.wall_time - S1.wall_time
    /\ d.clock_time_delta = S2.clock_time - S1.clock_time
    /\ d.cpu_memory_delta_mb = S2.cpu_memory_mb - S1.cpu_memory_mb
    /\ d.gpu_memory_delta_mb = S2.gpu_memory_mb - S1.gpu_memory_mb

\* C12: with a baseline S1 captured by start_monitoring, get_delta(S2) is
\* S2.field - S1.field for each of the four fields, and the two memory
\* deltas of a Result are those differences between its run's end snapshot
\* and baseline.
C12_DeltaCorrectness ==
    /\ (CallWas("get_delta") /\ monitor[1][1].start_snapshot # None) =>
          IsDelta(call[1].ret, monitor[1][1].start_snapshot[1], call[1].args[1])
    /\ pc = "result" =>
          LET S1 == monitor[idx][1].start_snapshot[1]
              S2 == loc.end_snapshot[1]
          IN  /\ IsDelta(loc.delta, S1, S2)
              /\ new_result.cpu_memory_delta_mb = S2.cpu_memory_mb - S1.cpu_memory_mb
              /\ new_result.gpu_memory_delta_mb = S2.gpu_memory_mb - S1.gpu_memory_mb

\* Time went on and the process memory went down between the two snapshots.
C12_Witness ==
    /\ CallWas("get_delta")
    /\ monitor[1][1].start_snapshot # None
    /\ call[1].ret.wall_time_delta > 0
    /\ call[1].ret.cpu_memory_delta_mb < 0
    /\ call[1].ret.gpu_memory_delta_mb > 0

\* The place of a Result in the Comparator's list.
PlaceOf(r) == CHOOSE k \in 1..Len(results) : results[k] = r

\* C13: the rows of the table are the Results sorted ascending by training
\* time, Results of equal time in run order, and the fastest policy is the
\* first row; the Comparator's own list keeps its order.
C13_Ranking ==
    /\ [](pc = "printed" /\ results # <<>> =>
            LET rows == report[1].rows
            IN  /\ Len(rows) = Len(results)
                /\ \A k \in 1..Len(results) : \E j \in 1..Len(rows) : rows[j] = results[k]
                /\ \A i, j \in 1..Len(rows) : i < j =>
                      /\ rows[i].training_time_sec <= rows[j].training_time_sec
                      /\ rows[i].training_time_sec = rows[j].training_time_sec
                            => PlaceOf(rows[i]) < PlaceOf(rows[j])
                /\ report[1].fastest = Some(rows[1].precision_policy))
    /\ [][pc' = "printed" => results' = results]_vars

\* The slowest Result came first and the other two tie: the rows are the
\* second, the third, the first.
C13_Witness ==
    /\ pc = "printed"
    /\ Len(results) = 3
    /\ results[1].training_time_sec = 2
    /\ results[2].training_time_sec = 1
    /\ results[3].training_time_sec = 1
    /\ report[1].rows = <<results[2], results[3], results[1]>>
    /\ report[1].fastest = Some(results[2].precision_policy)

\* The earliest of the Results that no other Result beats.
FirstBest(Beats(_, _)) ==
    CHOOSE k \in 1..Len(results) :
        /\ \A j \in 1..Len(results) : ~Beats(results[j], results[k])
        /\ \A j \in 1..(k - 1) : Beats(results[k], results[j])

MoreThroughput(a, b) ==
    FracLess(b.throughput_batches_per_sec, a.throughput_batches_per_sec)

LessPeak(a, b) == a.peak_gpu_memory_mb < b.peak_gpu_memory_mb

\* C14: the highest-throughput policy is the earliest Result of maximal
\* throughput and the lowest-peak policy the earliest Result of minimal peak,
\* each over all Results, whatever their training times.
C14_IndependentWinners ==
    (pc = "printed" /\ results # <<>>) =>
        /\ report[1].highest_throughput =
              Some(results[FirstBest(MoreThroughput)].precision_policy)
        /\ report[1].lowest_peak =
              Some(results[FirstBest(LessPeak)].precision_policy)
        /\ \A j \in 1..Len(results) :
              /\ ~MoreThroughput(results[j], results[FirstBest(MoreThroughput)])
              /\ ~LessPeak(results[j], results[FirstBest(LessPeak)])

\* Three Results and three different winners; the first two tie for the
\* highest throughput and the first is named.
C14_Witness ==
    /\ pc = "printed"
    /\ Len(results) = 3
    /\ results[1].throughput_batches_per_sec = results[2].throughput_batches_per_sec
    /\ report[1].fastest = Some(results[3].precision_policy)
    /\ report[1].highest_throughput = Some(results[1].precision_policy)
    /\ report[1].lowest_peak = Some(results[2].precision_policy)

\* A sampling thread that has been started and has not ended.
Alive == {"check", "sample", "probe", "wait"}

\* C15: at most one sampling thread is alive at any moment, and it is the
\* thread of the run in flight: the next run's baseline and sampler start
\* only when the previous run's sampler has stopped.
C15_StrictlySequential ==
    /\ Cardinality({r \in Runs : samplerPc[r] \in Alive}) <= 1
    /\ \A r \in Runs : samplerPc[r] \in Alive => (InRun /\ r = idx)

\* The session is over: run_comparison has returned, or the user's
\* interruption has ended the process.
SessionOver == Finished \/ pc = "interrupted"

\* C16: every run_single_policy call eventually returns (or is left by the
\* user's interruption) whatever its sampling thread does, and run_comparison
\* eventually returns with every policy attempted.
C16_ForwardProgress ==
    /\ \A i \in Runs : (InRun /\ idx = i) ~> (idx = i + 1)
    /\ <>SessionOver
    /\ [](Finished => \A i \in 1..Len(policies) : attempts[i] = 1)

\* run_comparison has returned after two runs while the first run's sampling
\* thread, not having honoured the cancellation, is still alive.
C16_Witness ==
    /\ Finished
    /\ Len(policies) = 2
    /\ attempts[1] = 1 /\ attempts[2] = 1
    /\ samplerPc[1] \in Alive

\* How often a step occurs in the current run's history.
Count(e) == Cardinality({k \in 1..Len(events) : events[k] = e})

\* C17: every run constructs its own Monitor, fresh (no samples, peak 0.0)
\* when its baseline has just been taken, and takes that baseline exactly
\* once; a Monitor holds the readings of its own sampling thread only, and
\* the peak and deltas of a Result come from its own run's Monitor and
\* snapshots.
C17_NoCrossRunState ==
    /\ [](InRun =>
            /\ pc \in {"config", "monitor"} => monitor[idx] = None
            /\ pc = "spawn" =>
                  /\ monitor[idx] # None
                  /\ monitor[idx][1].start_snapshot # None
                  /\ monitor[idx][1].memory_samples = <<>>
                  /\ monitor[idx][1].peak_gpu_memory_mb = 0
            /\ Count("monitor") <= 1
            /\ pc \notin {"config", "monitor"} => Count("monitor") = 1
            /\ pc = "result" =>
                  /\ new_result.peak_gpu_memory_mb = PeakOf(probeLog[idx])
                  /\ new_result.gpu_memory_delta_mb =
                        loc.end_snapshot[1].gpu_memory_mb
                          - monitor[idx][1].start_snapshot[1].gpu_memory_mb
                  /\ new_result.cpu_memory_delta_mb =
                        loc.end_snapshot[1].cpu_memory_mb
                          - monitor[idx][1].start_snapshot[1].cpu_memory_mb)
    /\ [](\A r \in Runs : monitor[r] # None =>
            monitor[r][1].memory_samples = probeLog[r])
    /\ [][\A r \in Runs : (monitor[r] # None /\ monitor'[r] # None) =>
             monitor'[r][1].start_snapshot = monitor[r][1].start_snapshot]_vars

\* The second run is about to build its Result with no sample of its own,
\* after a first run whose Result has a peak from its sample.
C17_Witness ==
    /\ pc = "result"
    /\ idx = 2
    /\ Len(results) = 1
    /\ results[1].peak_gpu_memory_mb = 1
    /\ monitor[2][1].memory_samples = <<>>
    /\ new_result.peak_gpu_memory_mb = 0

\* What a Monitor holds besides its sample list and its peak.
Fixed(m) ==
    <<m.enable_memory_tracking, m.enable_timing_tracking, m.start_snapshot>>

\* C18: a step of a sampling thread changes nothing but the sample list and
\* the peak of its own Monitor (which is dropped when the thread ends after
\* its run): not that Monitor's baseline or flags, not the Results, not the
\* foreground's state, not another run's Monitor or event.
C18_SamplerFrame ==
    [][\A r \in Runs : SamplerNext(r) =>
          /\ results' = results /\ report' = report /\ config' = config
          /\ loc' = loc /\ pc' = pc /\ idx' = idx /\ stop' = stop
          /\ \A q \in Runs \ {r} :
                monitor'[q] = monitor[q] /\ samplerPc'[q] = samplerPc[q]
          /\ monitor'[r] # None => Fixed(monitor'[r][1]) = Fixed(monitor[r][1])]_vars

\* The second run is in flight with an untouched Monitor while the first
\* run's thread has recorded a sample in its own.
C18_Witness ==
    /\ InRun
    /\ idx = 2
    /\ monitor[1] # None /\ monitor[2] # None
    /\ monitor[1][1].memory_samples # <<>>
    /\ monitor[2][1].memory_samples = <<>>
    /\ monitor[1][1].start_snapshot # None

\* C19: a KeyboardInterrupt in the workload still has the sampler's
\* cancellation signalled but ends the session: no further policy is run,
\* no Result is added, no report is printed.  Nothing else ends a session.
C19_InterruptionIsFatal ==
    /\ [](\A i \in Over : fault[i] = "interrupt" =>
            /\ pc = "interrupted"
            /\ idx = i + 1
            /\ stop[i]
            /\ ~HasResult(i)
            /\ report = None
            /\ \A j \in Runs : j > i => attempts[j] = 0)
    /\ [](pc = "interrupted" => fault[idx - 1] = "interrupt")
    /\ [][pc = "interrupted" =>
            /\ pc' = "interrupted"
            /\ results' = results /\ report' = report /\ attempts' = attempts]_vars

\* The first of two policies was interrupted: its sampler was cancelled and
\* the session ended with the second policy never attempted.
C19_Witness ==
    /\ pc = "interrupted"
    /\ Len(policies) = 2
    /\ fault[1] = "interrupt"
    /\ stop[1]
    /\ attempts[2] = 0
    /\ results = <<>>

\* The statistics of a Monitor without samples.
NoStats == [peak_gpu_mb |-> 0, avg_gpu_mb |-> Zero, samples_count |-> 0]

\* C20: with memory tracking disabled a Monitor's sample list stays empty and
\* its peak 0.0 whatever is called, get_peak_memory_stats reports zeros, and
\* every Result has peak 0.0 and accelerator delta 0.0.
C20_DisabledTrackingNoOp ==
    ~config.enable_memory_tracking =>
        /\ \A r \in Runs : monitor[r] # None =>
              /\ monitor[r][1].memory_samples = <<>>
              /\ monitor[r][1].peak_gpu_memory_mb = 0
              /\ get_peak_memory_stats(monitor[r][1]) = NoStats
        /\ CallWas("get_peak_memory_stats") => call[1].ret = NoStats
        /\ \A k \in 1..Len(results) :
              /\ results[k].peak_gpu_memory_mb = 0
              /\ results[k].gpu_memory_delta_mb = 0
        /\ pc = "result" =>
              /\ new_result.peak_gpu_memory_mb = 0
              /\ new_result.gpu_memory_delta_mb = 0

\* A direct caller has just called sample_memory with tracking disabled.
C20_Witness ==
    /\ ~config.enable_memory_tracking
    /\ CallWas("sample_memory")
    /\ monitor[1][1].memory_samples = <<>>
    /\ monitor[1][1].peak_gpu_memory_mb = 0

SnapshotFields == {"wall_time", "clock_time", "cpu_memory_mb", "gpu_memory_mb"}

\* C21: on a Monitor whose start_monitoring was never called get_snapshot
\* returns a snapshot and leaves the baseline absent, and get_delta returns
\* the empty dict for every end snapshot; once start_monitoring has been
\* called get_delta is never empty.
C21_UnstartedMonitor ==
    /\ [](CallWas("get_delta") =>
            /\ DOMAIN call[1].args[1] = SnapshotFields
            /\ monitor[1][1].start_snapshot = None <=> DOMAIN call[1].ret = {})
    /\ [](pc \in {"metrics", "result"} => monitor[idx][1].start_snapshot # None)
    /\ [](pc = "result" => DOMAIN loc.delta # {})
    /\ [][(call' # call /\ call' # None /\ call'[1].op = "get_delta")
            => monitor' = monitor]_vars

\* get_delta on a Monitor without a baseline returned the empty dict.
C21_Witness ==
    /\ CallWas("get_delta")
    /\ monitor[1][1].start_snapshot = None
    /\ DOMAIN call[1].ret = {}
    /\ DOMAIN call[1].args[1] = SnapshotFields

\* C22: of every run at most one sample call begins after the run's stop
\* event has been set, and at most one reading is added to the sample list
\* after it.
C22_AtMostOneLateSample ==
    \A r \in Runs : late[r].begun <= 1 /\ late[r].recorded <= 1

\* A sample call that began after the event was set has recorded its
\* reading.
C22_Witness ==
    \E r \in Runs :
        /\ stop[r]
        /\ late[r].begun = 1
        /\ late[r].recorded = 1
        /\ monitor[r] # None
        /\ monitor[r][1].memory_samples # <<>>

\* C23: run_comparison starts from an empty result list.  However often it
\* is called on the same Comparator, self.results holds only Results of the
\* most recent call (those of its finished runs in which nothing raised, one
\* each, in list order), none left by an earlier call, and never more Results
\* than there are configured policies.
C23_FreshResultList ==
    /\ Len(results) <= Len(policies)
    /\ (pc = "loop" /\ idx = 1) => results = <<>>
    /\ PolicyNames(results) =
           PoliciesWhere(Len(policies), {i \in Over : fault[i] = "none"})

\* The second call has returned a Result for each of two policies, and the
\* earlier call had left Results behind.
C23_Witness ==
    /\ pc = "returned"
    /\ calls.made = 2
    /\ calls.earlier >= 1
    /\ Len(policies) = 2
    /\ Len(results) = 2

\* A snapshot taken without reading the clocks.
Untimed(snapshot) == snapshot.wall_time = 0 /\ snapshot.clock_time = 0

\* C24: with timing tracking disabled every snapshot has wall time 0 and
\* clock time 0, the clock-time delta of every run is 0 and the throughput of
\* every Result is 0.0, while the Result's training time is the wall clock's
\* advance from start_time to end_time whatever the flag says.
C24_TimingDisabled ==
    /\ [](\A r \in Runs :
            (/\ monitor[r] # None
             /\ ~monitor[r][1].enable_timing_tracking
             /\ monitor[r][1].start_snapshot # None)
                => Untimed(monitor[r][1].start_snapshot[1]))
    /\ []((CallWas("get_delta") /\ ~monitor[1][1].enable_timing_tracking) =>
            /\ Untimed(call[1].args[1])
            /\ DOMAIN call[1].ret # {} => call[1].ret.clock_time_delta = 0)
    /\ []((pc \in {"metrics", "result"} /\ ~config.enable_timing_tracking) =>
            Untimed(loc.end_snapshot[1]))
    /\ []((pc = "result" /\ ~config.enable_timing_tracking) =>
            /\ loc.delta.clock_time_delta = 0
            /\ loc.throughput = Zero)
    /\ [](~config.enable_timing_tracking =>
            \A k \in 1..Len(results) : results[k].throughput_batches_per_sec = Zero)
    /\ [](pc \in {"metrics", "result"} =>
            /\ loc.end_time = now
            /\ loc.training_time = loc.end_time - loc.start_time)
    /\ [][Len(results') > Len(results) =>
             results'[Len(results')].training_time_sec = now - loc.start_time]_vars

\* Timing tracking is disabled and run_comparison has returned a Result whose
\* training time is positive and whose throughput is 0.0.
C24_Witness ==
    /\ pc = "returned"
    /\ ~config.enable_timing_tracking
    /\ results # <<>>
    /\ results[1].training_time_sec > 0
    /\ results[1].throughput_batches_per_sec = Zero

====
